---- MODULE Spec2Model ----
(***************************************************************************)
(* Model of the image builder tool of youtube_shorts_maker:                *)
(*   generate_image_with_retry  (tools.py 10-60)                           *)
(*   generate_images            (tools.py 63-149)                          *)
(* The shared state store, the artifact store and the image API are the    *)
(* environment: every answer they can give is a nondeterministic choice.   *)
(* Control is cut at the await points of the two coroutines.               *)
(***************************************************************************)
EXTENDS Integers, Sequences, FiniteSets, TLC

VARIABLES state, store, inv, runs

vars == <<state, store, inv, runs>>

(* ---------------------------- bounds ----------------------------------- *)
\* longest optimized_prompts list
MaxScenes == 2
\* scene ids are 1..MaxSceneId
MaxSceneId == 2
\* invocations of generate_images per behaviour (a run and its restarts)
MaxRuns == 2
\* largest max_retries handed to a direct call of generate_image_with_retry
MaxDirectRetries == 5
\* longest optimized_prompts list two concurrent invocations run over
MaxConcScenes == 1

(* ------------------------ program constants ---------------------------- *)
\* tools.py 14: max_retries: int = 5 (generate_images passes no value)
DefaultMaxRetries == 5
\* tools.py 51: wait_time = 15
wait_time == 15
\* tools.py 112, 140: enhanced_prompt[:100]
PromptLimit == 100

(* --------------------------- Python values ----------------------------- *)
\* None is the empty tuple, a present value v is <<v>>
None == <<>>

Some(v) == <<v>>

\* dict.get(key): the value, or None when the key is absent
Get(d, k) == IF k \in DOMAIN d THEN Some(d[k]) ELSE None

Min(a, b) == IF a < b THEN a ELSE b

\* s[:n] of a string s
Slice(s, n) == SubSeq(s, 1, Min(Len(s), n))

\* f"scene_{scene_id}_image.jpeg"
Filename(scene_id) == <<"scene_", scene_id, "_image.jpeg">>

\* base64.b64decode of an unpadded text, given as its sequence of alphabet
\* indices 0..63: every four sextets give three bytes
RECURSIVE b64decode(_)
b64decode(s) ==
    IF Len(s) < 4 THEN <<>>
    ELSE << s[1] * 4 + (s[2] \div 16),
            (s[2] % 16) * 16 + (s[3] \div 4),
            (s[3] % 4) * 64 + s[4] >> \o b64decode(SubSeq(s, 5, Len(s)))

\* types.Part(inline_data=types.Blob(mime_type="image/jpeg", data=image_bytes))
Part(image_bytes) == [mime_type |-> "image/jpeg", data |-> image_bytes]

\* ImageRecord that keeps the whole prompt
ImageRecord_FullPrompt(scene_id, enhanced_prompt) ==
    [scene_id |-> scene_id,
     prompt   |-> enhanced_prompt,
     filename |-> Filename(scene_id)]

\* the record appended to generate_images for one request
ImageRecord(scene_id, enhanced_prompt) ==
    [scene_id |-> scene_id,
     prompt   |-> Slice(enhanced_prompt, PromptLimit),
     filename |-> Filename(scene_id)]

\* the dict returned by generate_images
Summary(records) ==
    [total_images     |-> Len(records),
     generated_images |-> records,
     status           |-> "complete"]

\* the keyword arguments of client.images.generate
ImageRequest(enhanced_prompt) ==
    [model |-> "gpt-image-1", prompt |-> enhanced_prompt, n |-> 1,
     quality |-> "low", moderation |-> "low", output_format |-> "jpeg",
     background |-> "opaque", size |-> "1024x1536"]

(* ------------------------------ inputs --------------------------------- *)
SceneIds == 1..MaxSceneId

\* a prompt below the limit and one a character above it
ShortPrompt == <<7, 8, 9>>

LongPrompt == [k \in 1..(PromptLimit + 1) |-> k % 5]

Prompts == {ShortPrompt, LongPrompt}

\* the prompt written for a scene: long for odd ids, short for even ones
PromptOf(scene_id) == IF scene_id % 2 = 1 THEN LongPrompt ELSE ShortPrompt

\* OptimizedPrompt objects as stored in the state (prompt_builder/agent.py);
\* a list may name the same scene more than once
OptimizedPrompt ==
    {[scene_id |-> s, enhanced_prompt |-> PromptOf(s)] : s \in SceneIds}

SeqsUpTo(S, n) == UNION {[1..k -> S] : k \in 0..n}

\* the shared state: no slot, a slot without the field, a slot with a list
StateChoices ==
    {<<>>}
    \cup {("prompt_builder_output" :> <<>>)}
    \cup {("prompt_builder_output" :> ("optimized_prompts" :> ps)) :
             ps \in SeqsUpTo(OptimizedPrompt, MaxScenes)}

\* b64_json payloads the API may answer with
Payloads == {<<18, 52, 21, 35>>, <<63, 63, 63, 63>>}

\* the seconds a RateLimitError may say to wait before a retry
RetryAfterHints == {2, 60}

\* an artifact saved before the behaviour starts
OldArtifact == Part(<<0, 0, 0>>)

\* an artifact of another tool in the same store
OtherFile == <<"other_artifact">>

\* any set of scene images saved earlier, or only the other tool's artifact
InitialStores ==
    {[f \in fs |-> OldArtifact] :
        fs \in SUBSET {Filename(s) : s \in SceneIds} \cup {{OtherFile}}}

(* ------------------------------ frames --------------------------------- *)
\* One frame per caller.  Program variables keep the names of the source;
\* the fields after "result" are history of the current invocation:
\*   requested  positions of the input list a request was sent for
\*   okGen      images received per position
\*   wrote      names written per position
\*   requests, rateLimited, payload, slept, log
\*              requests sent, rate-limit answers, last image payload, waits
\*              and messages of the current retry call
\*   reply      the answer of the API to the attempt under way
\*   hint       the retry-after seconds a rate-limit answer carries
\*   snapshot   the store as the listing saw it
\*   prev       the outcome of the invocation before this one
IdleFrame ==
    [pc                 |-> "idle",
     caller             |-> "generate_images",
     optimized_prompts  |-> None,
     existing_artifacts |-> {},
     generate_images    |-> <<>>,
     i                  |-> 1,
     enhanced_prompt    |-> <<>>,
     scene_id           |-> 0,
     max_retries        |-> 0,
     attempt            |-> 0,
     request            |-> None,
     image_bytes        |-> None,
     error              |-> "none",
     result             |-> None,
     requested          |-> {},
     okGen              |-> <<>>,
     wrote              |-> <<>>,
     requests           |-> 0,
     rateLimited        |-> 0,
     payload            |-> None,
     reply              |-> "none",
     hint               |-> None,
     slept              |-> <<>>,
     log                |-> <<>>,
     snapshot           |-> <<>>,
     listed             |-> FALSE,
     prev               |-> None]

Terminal == {"returned", "raised", "terminated"}

\* the await points of the two coroutines
Suspended == {"list", "in_flight", "sleeping", "save"}

Raise(f, e) == [f EXCEPT !.pc = "raised", !.error = e]

Init ==
    /\ state \in StateChoices
    /\ store \in InitialStores
    /\ inv = [t \in {1} |-> IdleFrame]
    /\ runs = 0

(* ------------------- generate_images (tools.py 63-149) ----------------- *)
Range(s) == {s[k] : k \in DOMAIN s}

\* the input list of the current invocation (empty when it is None)
Inputs(f) == IF f.optimized_prompts = None THEN <<>> ELSE f.optimized_prompts[1]

\* what an ended invocation leaves behind for the next one to compare with
Outcome(f) ==
    [pc          |-> f.pc,
     error       |-> f.error,
     result      |-> f.result,
     listed      |-> f.listed,
     written     |-> UNION {Range(f.wrote[k]) : k \in DOMAIN f.wrote},
     requested   |-> f.requested,
     allExisting |-> f.listed /\ \A k \in DOMAIN Inputs(f) :
                        Filename(Inputs(f)[k].scene_id) \in f.existing_artifacts]

\* tools.py 96-97: the host calls the tool; the slot and the field are read
\* with dict.get, and .get on a missing slot (None) raises AttributeError
GI_ReadState(t) ==
    /\ inv[t].caller = "generate_images"
    /\ inv[t].pc \in {"idle"} \cup Terminal
    /\ runs < MaxRuns
    /\ LET f0  == [IdleFrame EXCEPT
                      !.prev = IF inv[t].pc = "idle" THEN None
                               ELSE Some(Outcome(inv[t]))]
           pbo == Get(state, "prompt_builder_output")
       IN  inv' = [inv EXCEPT ![t] =
                IF pbo = None
                THEN Raise(f0, "AttributeError")
                ELSE [f0 EXCEPT !.pc = "list",
                                !.optimized_prompts =
                                    Get(pbo[1], "optimized_prompts")]]
    /\ runs' = runs + 1
    /\ UNCHANGED <<state, store>>

\* tools.py 99-101: the listing answers with the names now in the store
GI_ListArtifacts(t) ==
    /\ inv[t].pc = "list"
    /\ inv' = [inv EXCEPT ![t] =
            [@ EXCEPT !.pc = "loop",
                      !.existing_artifacts = DOMAIN store,
                      !.generate_images = <<>>,
                      !.i = 1,
                      !.okGen = [k \in DOMAIN Inputs(inv[t]) |-> 0],
                      !.wrote = [k \in DOMAIN Inputs(inv[t]) |-> <<>>],
                      !.snapshot = store,
                      !.listed = TRUE]]
    /\ UNCHANGED <<state, store, runs>>

\* tools.py 99: the listing call fails; nothing catches the error
GI_ListFails(t) ==
    /\ inv[t].pc = "list"
    /\ inv' = [inv EXCEPT ![t] = Raise(@, "ArtifactError")]
    /\ UNCHANGED <<state, store, runs>>

\* tools.py 103: iterating None raises TypeError
GI_IterateNone(t) ==
    /\ inv[t].pc = "loop"
    /\ inv[t].optimized_prompts = None
    /\ inv' = [inv EXCEPT ![t] = Raise(@, "TypeError")]
    /\ UNCHANGED <<state, store, runs>>

\* the request the loop is at
Current(f) == Inputs(f)[f.i]

\* GI_Skip that continues without appending the record
GI_Skip_NoRecord(t) ==
    LET f == inv[t] IN
    /\ f.pc = "loop"
    /\ f.optimized_prompts # None
    /\ f.i <= Len(Inputs(f))
    /\ Filename(Current(f).scene_id) \in f.existing_artifacts
    /\ inv' = [inv EXCEPT ![t] = [@ EXCEPT !.i = @ + 1]]
    /\ UNCHANGED <<state, store, runs>>

\* tools.py 103-116: the artifact is in the listing: record it and continue
GI_Skip(t) ==
    LET f == inv[t] IN
    /\ f.pc = "loop"
    /\ f.optimized_prompts # None
    /\ f.i <= Len(Inputs(f))
    /\ Filename(Current(f).scene_id) \in f.existing_artifacts
    /\ inv' = [inv EXCEPT ![t] =
            [@ EXCEPT !.generate_images =
                          Append(@, ImageRecord(Current(f).scene_id,
                                                Current(f).enhanced_prompt)),
                      !.i = @ + 1]]
    /\ UNCHANGED <<state, store, runs>>

\* GI_CallRetry without the test of line 108: every request is generated
GI_CallRetry_NoListingTest(t) ==
    LET f == inv[t] IN
    /\ f.pc = "loop"
    /\ f.optimized_prompts # None
    /\ f.i <= Len(Inputs(f))
    /\ inv' = [inv EXCEPT ![t] =
            [@ EXCEPT !.pc = "retry_loop",
                      !.enhanced_prompt = Current(f).enhanced_prompt,
                      !.scene_id = Current(f).scene_id,
                      !.max_retries = DefaultMaxRetries,
                      !.attempt = 0,
                      !.request = None,
                      !.image_bytes = None,
                      !.requests = 0,
                      !.rateLimited = 0,
                      !.payload = None,
                      !.reply = "none",
                      !.slept = <<>>,
                      !.log = <<>>]]
    /\ UNCHANGED <<state, store, runs>>

\* GI_CallRetry that looks at the store again before it generates: a file
\* another invocation has written meanwhile is recorded as existing
GI_CallRetry_LooksAgain(t) ==
    LET f == inv[t] IN
    /\ f.pc = "loop"
    /\ f.optimized_prompts # None
    /\ f.i <= Len(Inputs(f))
    /\ Filename(Current(f).scene_id) \notin f.existing_artifacts
    /\ inv' = [inv EXCEPT ![t] =
            IF Filename(Current(f).scene_id) \in DOMAIN store
            THEN [@ EXCEPT !.generate_images =
                              Append(@, ImageRecord(Current(f).scene_id,
                                                    Current(f).enhanced_prompt)),
                           !.i = @ + 1]
            ELSE [@ EXCEPT !.pc = "retry_loop",
                           !.enhanced_prompt = Current(f).enhanced_prompt,
                           !.scene_id = Current(f).scene_id,
                           !.max_retries = DefaultMaxRetries,
                           !.attempt = 0,
                           !.request = None,
                           !.image_bytes = None,
                           !.requests = 0,
                           !.rateLimited = 0,
                           !.payload = None,
                           !.reply = "none",
                           !.slept = <<>>,
                           !.log = <<>>]]
    /\ UNCHANGED <<state, store, runs>>

\* GI_CallRetry that looks in the listing for the name of the position in
\* the list instead of the name of the scene
GI_CallRetry_TestsPosition(t) ==
    LET f == inv[t] IN
    /\ f.pc = "loop"
    /\ f.optimized_prompts # None
    /\ f.i <= Len(Inputs(f))
    /\ Filename(f.i) \notin f.existing_artifacts
    /\ inv' = [inv EXCEPT ![t] =
            [@ EXCEPT !.pc = "retry_loop",
                      !.enhanced_prompt = Current(f).enhanced_prompt,
                      !.scene_id = Current(f).scene_id,
                      !.max_retries = DefaultMaxRetries,
                      !.attempt = 0,
                      !.request = None,
                      !.image_bytes = None,
                      !.requests = 0,
                      !.rateLimited = 0,
                      !.payload = None,
                      !.reply = "none",
                      !.slept = <<>>,
                      !.log = <<>>]]
    /\ UNCHANGED <<state, store, runs>>

\* GI_CallRetry that grants the retry client one attempt more than the
\* default
GI_CallRetry_LargerBudget(t) ==
    LET f == inv[t] IN
    /\ f.pc = "loop"
    /\ f.optimized_prompts # None
    /\ f.i <= Len(Inputs(f))
    /\ Filename(Current(f).scene_id) \notin f.existing_artifacts
    /\ inv' = [inv EXCEPT ![t] =
            [@ EXCEPT !.pc = "retry_loop",
                      !.enhanced_prompt = Current(f).enhanced_prompt,
                      !.scene_id = Current(f).scene_id,
                      !.max_retries = DefaultMaxRetries + 1,
                      !.attempt = 0,
                      !.request = None,
                      !.image_bytes = None,
                      !.requests = 0,
                      !.rateLimited = 0,
                      !.payload = None,
                      !.reply = "none",
                      !.slept = <<>>,
                      !.log = <<>>]]
    /\ UNCHANGED <<state, store, runs>>

\* tools.py 103-123: the artifact is not in the listing: call the retry
\* client with the full prompt and the default max_retries
GI_CallRetry(t) ==
    LET f == inv[t] IN
    /\ f.pc = "loop"
    /\ f.optimized_prompts # None
    /\ f.i <= Len(Inputs(f))
    /\ Filename(Current(f).scene_id) \notin f.existing_artifacts
    /\ inv' = [inv EXCEPT ![t] =
            [@ EXCEPT !.pc = "retry_loop",
                      !.enhanced_prompt = Current(f).enhanced_prompt,
                      !.scene_id = Current(f).scene_id,
                      !.max_retries = DefaultMaxRetries,
                      !.attempt = 0,
                      !.request = None,
                      !.image_bytes = None,
                      !.requests = 0,
                      !.rateLimited = 0,
                      !.payload = None,
                      !.reply = "none",
                      !.slept = <<>>,
                      !.log = <<>>]]
    /\ UNCHANGED <<state, store, runs>>

\* a store that keeps only the artifact just saved
Saved_DropsOthers(st, filename, artifact) ==
    [n \in {filename} |-> artifact]

\* the store after save_artifact(filename, artifact)
Saved(st, filename, artifact) ==
    [n \in DOMAIN st \cup {filename} |->
        IF n = filename THEN artifact ELSE st[n]]

\* GI_SaveArtifact that puts the new record at the head of the list
GI_SaveArtifact_Prepends(t) ==
    LET f == inv[t] IN
    /\ f.pc = "save"
    /\ store' = Saved(store, Filename(f.scene_id), Part(f.image_bytes))
    /\ inv' = [inv EXCEPT ![t] =
            [@ EXCEPT !.pc = "loop",
                      !.generate_images =
                          <<ImageRecord(f.scene_id, f.enhanced_prompt)>> \o @,
                      !.wrote = [@ EXCEPT ![f.i] =
                                    Append(@, Filename(f.scene_id))],
                      !.i = @ + 1]]
    /\ UNCHANGED <<state, runs>>

\* GI_SaveArtifact that names the artifact after the position in the list
\* instead of the scene_id
GI_SaveArtifact_ByPosition(t) ==
    LET f == inv[t] IN
    /\ f.pc = "save"
    /\ store' = Saved(store, Filename(f.i), Part(f.image_bytes))
    /\ inv' = [inv EXCEPT ![t] =
            [@ EXCEPT !.pc = "loop",
                      !.generate_images =
                          Append(@, ImageRecord(f.scene_id, f.enhanced_prompt)),
                      !.wrote = [@ EXCEPT ![f.i] = Append(@, Filename(f.i))],
                      !.i = @ + 1]]
    /\ UNCHANGED <<state, runs>>

\* GI_SaveArtifact that does not wait for the write: the record is appended
\* and the loop goes on while the store has not taken the artifact
GI_SaveArtifact_NotAwaited(t) ==
    LET f == inv[t] IN
    /\ f.pc = "save"
    /\ inv' = [inv EXCEPT ![t] =
            [@ EXCEPT !.pc = "loop",
                      !.generate_images =
                          Append(@, ImageRecord(f.scene_id, f.enhanced_prompt)),
                      !.i = @ + 1]]
    /\ UNCHANGED <<state, store, runs>>

\* tools.py 125-143: wrap the bytes, save them under the filename, then
\* append the record and go to the next request
GI_SaveArtifact(t) ==
    LET f == inv[t] IN
    /\ f.pc = "save"
    /\ store' = Saved(store, Filename(f.scene_id), Part(f.image_bytes))
    /\ inv' = [inv EXCEPT ![t] =
            [@ EXCEPT !.pc = "loop",
                      !.generate_images =
                          Append(@, ImageRecord(f.scene_id, f.enhanced_prompt)),
                      !.wrote = [@ EXCEPT ![f.i] =
                                    Append(@, Filename(f.scene_id))],
                      !.i = @ + 1]]
    /\ UNCHANGED <<state, runs>>

\* GI_SaveFails in a loop that appends the record before it saves
GI_SaveFails_RecordsFirst(t) ==
    LET f == inv[t] IN
    /\ f.pc = "save"
    /\ inv' = [inv EXCEPT ![t] =
            [Raise(f, "ArtifactError") EXCEPT
                !.generate_images =
                    Append(@, ImageRecord(f.scene_id, f.enhanced_prompt))]]
    /\ UNCHANGED <<state, store, runs>>

\* tools.py 132-135: the write fails: the store keeps what it had and the
\* error leaves generate_images
GI_SaveFails(t) ==
    /\ inv[t].pc = "save"
    /\ inv' = [inv EXCEPT ![t] = Raise(@, "ArtifactError")]
    /\ UNCHANGED <<state, store, runs>>

\* GI_Return that refuses to report an empty batch
GI_Return_RejectsEmpty(t) ==
    LET f == inv[t] IN
    /\ f.pc = "loop"
    /\ f.optimized_prompts # None
    /\ f.i > Len(Inputs(f))
    /\ inv' = [inv EXCEPT ![t] =
            IF f.generate_images = <<>>
            THEN Raise(f, "ValueError")
            ELSE [f EXCEPT !.pc = "returned",
                           !.result = Some(Summary(f.generate_images))]]
    /\ UNCHANGED <<state, store, runs>>

\* tools.py 145-149: the list is exhausted: return the summary
GI_Return(t) ==
    LET f == inv[t] IN
    /\ f.pc = "loop"
    /\ f.optimized_prompts # None
    /\ f.i > Len(Inputs(f))
    /\ inv' = [inv EXCEPT ![t] =
            [@ EXCEPT !.pc = "returned",
                      !.result = Some(Summary(f.generate_images))]]
    /\ UNCHANGED <<state, store, runs>>

\* the host process is stopped while generate_images waits at an await
Terminate(t) ==
    /\ inv[t].caller = "generate_images"
    /\ inv[t].pc \in Suspended
    /\ inv' = [inv EXCEPT ![t] = [@ EXCEPT !.pc = "terminated"]]
    /\ UNCHANGED <<state, store, runs>>

(* -------------- generate_image_with_retry (tools.py 10-60) ------------- *)
\* the call ends with value v: a direct caller gets it, generate_images
\* goes on to wrap and save it and the history of the call is dropped
ReturnBytes(f, v) ==
    IF f.caller = "direct"
    THEN [f EXCEPT !.pc = "returned", !.image_bytes = v, !.result = v]
    ELSE [f EXCEPT !.pc = "save", !.image_bytes = v,
                   !.attempt = 0, !.request = None, !.requests = 0,
                   !.rateLimited = 0, !.slept = <<>>, !.log = <<>>]

\* tools.py 31-42: the next value of range(max_retries), if any, sends one
\* request; an exhausted range leaves the loop and the function returns None
Retry_Attempt(t) ==
    LET f == inv[t] IN
    /\ f.pc = "retry_loop"
    /\ inv' = [inv EXCEPT ![t] =
            IF f.attempt < f.max_retries
            THEN [f EXCEPT !.pc = "in_flight",
                           !.request = Some(ImageRequest(f.enhanced_prompt)),
                           !.requests = @ + 1,
                           !.reply = "none",
                           !.requested = IF f.caller = "direct" THEN @
                                         ELSE @ \cup {f.i}]
            ELSE ReturnBytes(f, None)]
    /\ UNCHANGED <<state, store, runs>>

\* Retry_Success that returns the b64_json text without decoding it
Retry_Success_NoDecode(t) ==
    LET f == inv[t] IN
    /\ f.pc = "in_flight"
    /\ \E b64_json \in Payloads :
         inv' = [inv EXCEPT ![t] =
            [ReturnBytes(f, Some(b64_json)) EXCEPT
                !.payload = Some(b64_json),
                !.reply = "image",
                !.okGen = IF f.caller = "direct" THEN @
                          ELSE [@ EXCEPT ![f.i] = @ + 1]]]
    /\ UNCHANGED <<state, store, runs>>

\* Retry_Success that goes straight on to the next request and leaves the
\* save of the image for later
Retry_Success_DefersSave(t) ==
    LET f == inv[t] IN
    /\ f.pc = "in_flight"
    /\ \E b64_json \in Payloads :
         inv' = [inv EXCEPT ![t] =
            IF f.caller = "direct"
            THEN [ReturnBytes(f, Some(b64decode(b64_json))) EXCEPT
                     !.payload = Some(b64_json), !.reply = "image"]
            ELSE [ReturnBytes(f, Some(b64decode(b64_json))) EXCEPT
                     !.pc = "loop",
                     !.generate_images =
                         Append(@, ImageRecord(f.scene_id, f.enhanced_prompt)),
                     !.i = @ + 1,
                     !.payload = Some(b64_json),
                     !.reply = "image",
                     !.okGen = [@ EXCEPT ![f.i] = @ + 1]]]
    /\ UNCHANGED <<state, store, runs>>

\* tools.py 44-46: the API answers with an image: decode and return
Retry_Success(t) ==
    LET f == inv[t] IN
    /\ f.pc = "in_flight"
    /\ \E b64_json \in Payloads :
         inv' = [inv EXCEPT ![t] =
            [ReturnBytes(f, Some(b64decode(b64_json))) EXCEPT
                !.payload = Some(b64_json),
                !.reply = "image",
                !.okGen = IF f.caller = "direct" THEN @
                          ELSE [@ EXCEPT ![f.i] = @ + 1]]]
    /\ UNCHANGED <<state, store, runs>>

\* Retry_RateLimit with the test "attempt < max_retries": it sleeps after
\* the last attempt too and never raises
Retry_RateLimit_SleepsOnLast(t) ==
    LET f == inv[t] IN
    /\ f.pc = "in_flight"
    /\ inv' = [inv EXCEPT ![t] =
            IF f.attempt < f.max_retries
            THEN [f EXCEPT !.pc = "sleeping",
                           !.rateLimited = @ + 1,
                           !.reply = "rate_limit",
                           !.log = Append(@, [msg |-> "Rate limit hit",
                                              scene_id |-> f.scene_id,
                                              attempt |-> f.attempt + 1,
                                              max_retries |-> f.max_retries,
                                              wait_time |-> wait_time]),
                           !.slept = Append(@, wait_time)]
            ELSE [Raise(f, "RateLimitError") EXCEPT
                           !.rateLimited = @ + 1,
                           !.reply = "rate_limit",
                           !.log = Append(@, [msg |-> "Max retries exceeded",
                                              scene_id |-> f.scene_id,
                                              max_retries |-> f.max_retries])]]
    /\ UNCHANGED <<state, store, runs>>

\* Retry_RateLimit that gives up without raising: the exhausted call hands
\* None back and the batch goes on
Retry_RateLimit_Swallowed(t) ==
    LET f == inv[t] IN
    /\ f.pc = "in_flight"
    /\ inv' = [inv EXCEPT ![t] =
            IF f.attempt < f.max_retries - 1
            THEN [f EXCEPT !.pc = "sleeping",
                           !.rateLimited = @ + 1,
                           !.reply = "rate_limit",
                           !.slept = Append(@, wait_time)]
            ELSE [f EXCEPT !.pc = IF f.caller = "direct" THEN "returned"
                                                            ELSE "save",
                           !.image_bytes = None,
                           !.rateLimited = @ + 1,
                           !.reply = "rate_limit"]]
    /\ UNCHANGED <<state, store, runs>>

\* Retry_RateLimit that waits as long as the error says
Retry_RateLimit_UsesHint(t) ==
    LET f == inv[t] IN
    /\ f.pc = "in_flight"
    /\ \E retry_after \in RetryAfterHints :
         inv' = [inv EXCEPT ![t] =
            IF f.attempt < f.max_retries - 1
            THEN [f EXCEPT !.pc = "sleeping",
                           !.rateLimited = @ + 1,
                           !.reply = "rate_limit",
                           !.hint = Some(retry_after),
                           !.log = Append(@, [msg |-> "Rate limit hit",
                                              scene_id |-> f.scene_id,
                                              attempt |-> f.attempt + 1,
                                              max_retries |-> f.max_retries,
                                              wait_time |-> retry_after]),
                           !.slept = Append(@, retry_after)]
            ELSE [Raise(f, "RateLimitError") EXCEPT
                           !.rateLimited = @ + 1,
                           !.reply = "rate_limit",
                           !.hint = Some(retry_after),
                           !.log = Append(@, [msg |-> "Max retries exceeded",
                                              scene_id |-> f.scene_id,
                                              max_retries |-> f.max_retries])]]
    /\ UNCHANGED <<state, store, runs>>

\* tools.py 48-60: RateLimitError, whatever it says about when to retry:
\* before the last attempt print and sleep wait_time seconds, on the last
\* attempt print and re-raise
Retry_RateLimit(t) ==
    LET f == inv[t] IN
    /\ f.pc = "in_flight"
    /\ \E retry_after \in RetryAfterHints :
         inv' = [inv EXCEPT ![t] =
            IF f.attempt < f.max_retries - 1
            THEN [f EXCEPT !.pc = "sleeping",
                           !.rateLimited = @ + 1,
                           !.reply = "rate_limit",
                           !.hint = Some(retry_after),
                           !.log = Append(@, [msg |-> "Rate limit hit",
                                              scene_id |-> f.scene_id,
                                              attempt |-> f.attempt + 1,
                                              max_retries |-> f.max_retries,
                                              wait_time |-> wait_time]),
                           !.slept = Append(@, wait_time)]
            ELSE [Raise(f, "RateLimitError") EXCEPT
                           !.rateLimited = @ + 1,
                           !.reply = "rate_limit",
                           !.hint = Some(retry_after),
                           !.log = Append(@, [msg |-> "Max retries exceeded",
                                              scene_id |-> f.scene_id,
                                              max_retries |-> f.max_retries])]]
    /\ UNCHANGED <<state, store, runs>>

\* Retry_OtherError under "except Exception": the error is slept on and
\* retried like a rate limit
Retry_OtherError_Retried(t) ==
    LET f == inv[t] IN
    /\ f.pc = "in_flight"
    /\ inv' = [inv EXCEPT ![t] =
            IF f.attempt < f.max_retries - 1
            THEN [f EXCEPT !.pc = "sleeping",
                           !.reply = "error",
                           !.slept = Append(@, wait_time)]
            ELSE [Raise(f, "APIError") EXCEPT !.reply = "error"]]
    /\ UNCHANGED <<state, store, runs>>

\* tools.py 33, 48: an error that is not RateLimitError is not caught
Retry_OtherError(t) ==
    /\ inv[t].pc = "in_flight"
    /\ inv' = [inv EXCEPT ![t] = [Raise(@, "APIError") EXCEPT !.reply = "error"]]
    /\ UNCHANGED <<state, store, runs>>

\* tools.py 57, 31: the sleep ends and the loop takes the next attempt
Retry_SleepDone(t) ==
    /\ inv[t].pc = "sleeping"
    /\ inv' = [inv EXCEPT ![t] =
            [@ EXCEPT !.pc = "retry_loop", !.attempt = @ + 1,
                      !.reply = "none", !.hint = None]]
    /\ UNCHANGED <<state, store, runs>>

(* --------------------------- specifications ---------------------------- *)
Next ==
    \/ \E t \in DOMAIN inv : GI_ReadState(t)
    \/ \E t \in DOMAIN inv : GI_ListArtifacts(t)
    \/ \E t \in DOMAIN inv : GI_ListFails(t)
    \/ \E t \in DOMAIN inv : GI_IterateNone(t)
    \/ \E t \in DOMAIN inv : GI_Skip(t)
    \/ \E t \in DOMAIN inv : GI_CallRetry(t)
    \/ \E t \in DOMAIN inv : GI_SaveArtifact(t)
    \/ \E t \in DOMAIN inv : GI_SaveFails(t)
    \/ \E t \in DOMAIN inv : GI_Return(t)
    \/ \E t \in DOMAIN inv : Terminate(t)
    \/ \E t \in DOMAIN inv : Retry_Attempt(t)
    \/ \E t \in DOMAIN inv : Retry_Success(t)
    \/ \E t \in DOMAIN inv : Retry_RateLimit(t)
    \/ \E t \in DOMAIN inv : Retry_OtherError(t)
    \/ \E t \in DOMAIN inv : Retry_SleepDone(t)

Spec == Init /\ [][Next]_vars

\* a direct call generate_image_with_retry(client, enhanced_prompt, scene_id,
\* max_retries), as a test of the function makes it
DirectFrame(p, s, m) ==
    [IdleFrame EXCEPT !.pc = "retry_loop", !.caller = "direct",
                      !.enhanced_prompt = p, !.scene_id = s,
                      !.max_retries = m]

InitRetry ==
    /\ state = <<>>
    /\ store = <<>>
    /\ runs = 0
    /\ \E p \in Prompts, s \in SceneIds, m \in 0..MaxDirectRetries :
          inv = [t \in {1} |-> DirectFrame(p, s, m)]

NextRetry ==
    \/ \E t \in DOMAIN inv : Retry_Attempt(t)
    \/ \E t \in DOMAIN inv : Retry_Success(t)
    \/ \E t \in DOMAIN inv : Retry_RateLimit(t)
    \/ \E t \in DOMAIN inv : Retry_OtherError(t)
    \/ \E t \in DOMAIN inv : Retry_SleepDone(t)

SpecRetry == InitRetry /\ [][NextRetry]_vars

\* two invocations of generate_images share the run state and the store;
\* their steps interleave at the await points
ConcTasks == {1, 2}

\* the shared state they run over
ConcStateChoices ==
    {<<>>}
    \cup {("prompt_builder_output" :> <<>>)}
    \cup {("prompt_builder_output" :> ("optimized_prompts" :> ps)) :
             ps \in SeqsUpTo(OptimizedPrompt, MaxConcScenes)}

\* two invocations are left to make, whatever MaxRuns is
InitConc ==
    /\ state \in ConcStateChoices
    /\ store \in InitialStores
    /\ inv = [t \in ConcTasks |-> IdleFrame]
    /\ runs = MaxRuns - Cardinality(ConcTasks)

SpecConc == InitConc /\ [][Next]_vars

\* one invocation of generate_images in a host that keeps running: every
\* await is answered in the end (the API and the store reply, the sleep
\* ends) and the interpreter goes on with the coroutine between awaits
InitLive ==
    /\ state \in StateChoices
    /\ store \in InitialStores
    /\ inv = [t \in {1} |-> IdleFrame]
    /\ runs = MaxRuns - 1

\* the steps of the coroutines once the tool has been called
Progress ==
    \/ \E t \in DOMAIN inv : GI_ListArtifacts(t)
    \/ \E t \in DOMAIN inv : GI_ListFails(t)
    \/ \E t \in DOMAIN inv : GI_IterateNone(t)
    \/ \E t \in DOMAIN inv : GI_Skip(t)
    \/ \E t \in DOMAIN inv : GI_CallRetry(t)
    \/ \E t \in DOMAIN inv : GI_SaveArtifact(t)
    \/ \E t \in DOMAIN inv : GI_SaveFails(t)
    \/ \E t \in DOMAIN inv : GI_Return(t)
    \/ \E t \in DOMAIN inv : Retry_Attempt(t)
    \/ \E t \in DOMAIN inv : Retry_Success(t)
    \/ \E t \in DOMAIN inv : Retry_RateLimit(t)
    \/ \E t \in DOMAIN inv : Retry_OtherError(t)
    \/ \E t \in DOMAIN inv : Retry_SleepDone(t)

NextLive ==
    \/ \E t \in DOMAIN inv : GI_ReadState(t)
    \/ Progress

SpecLive == InitLive /\ [][NextLive]_vars /\ WF_vars(Progress)

(* ------------------------------- claims -------------------------------- *)
Frames == {inv[t] : t \in DOMAIN inv}

\* the frames of generate_images that have read their listing
Batches == {f \in Frames : f.caller = "generate_images" /\ f.listed
                            /\ f.optimized_prompts # None}

Key(f, k) == Filename(Inputs(f)[k].scene_id)

\* every request of the input has its artifact in the listing
AllExisting(f) == \A k \in DOMAIN Inputs(f) : Key(f, k) \in f.existing_artifacts

NoWrites(f) == \A k \in DOMAIN f.wrote : f.wrote[k] = <<>>

\* C1: when the listing holds the artifact of every request, the invocation
\* sends no generation request and writes nothing to the store, and if the
\* invocation before it ran over such a listing too and returned, both
\* return the same summary.
C1_Idempotence ==
    \A f \in Batches :
        AllExisting(f) =>
            /\ f.requested = {}
            /\ f.requests = 0
            /\ NoWrites(f)
            /\ store = f.snapshot
            /\ (/\ f.pc = "returned"
                /\ f.prev # None
                /\ f.prev[1].pc = "returned"
                /\ f.prev[1].allExisting) => f.result = f.prev[1].result

\* two invocations in a row over a full listing of a two-request input
C1_Witness ==
    \E f \in Batches :
        /\ AllExisting(f)
        /\ Len(Inputs(f)) >= 2
        /\ f.pc = "returned"
        /\ f.prev # None
        /\ f.prev[1].pc = "returned"
        /\ f.prev[1].allExisting
        /\ f.result = f.prev[1].result
        /\ f.result[1].total_images = Len(Inputs(f))

\* the invocation before this one was cut short after it had written
Resumed(f) ==
    /\ f.prev # None
    /\ f.prev[1].pc \in {"raised", "terminated"}
    /\ f.prev[1].written # {}

\* C2: no step removes an artifact from the store; an invocation that
\* follows an aborted one finds every artifact the aborted one wrote in its
\* listing, leaves the listed artifacts as they were, and sends generation
\* requests only for requests whose artifact is missing from the listing.
C2_Resumable ==
    /\ [][\A n \in DOMAIN store : n \in DOMAIN store']_vars
    /\ [](\A f \in Batches :
            Resumed(f) =>
                /\ f.prev[1].written \subseteq f.existing_artifacts
                /\ \A n \in f.existing_artifacts :
                       n \in DOMAIN store /\ store[n] = f.snapshot[n]
                /\ \A k \in f.requested :
                       /\ Key(f, k) \notin f.existing_artifacts
                       /\ Key(f, k) \notin f.prev[1].written)

\* an aborted run wrote an artifact; the restarted run skipped it, generated
\* a missing one and returned
C2_Witness ==
    \E f \in Batches :
        /\ Resumed(f)
        /\ f.pc = "returned"
        /\ f.requested # {}
        /\ \E k \in DOMAIN Inputs(f) :
              k \notin f.requested /\ Key(f, k) \in f.prev[1].written

\* the retry client failed in this invocation: the API answered with an
\* error other than the rate limit, or with the rate limit on the last
\* attempt
RetryFailed(f) ==
    /\ f.caller = "generate_images"
    /\ \/ f.reply = "error"
       \/ f.reply = "rate_limit" /\ f.attempt >= f.max_retries - 1

\* C3: when the retry client fails for the request at position k, the
\* invocation ends raised without a result and nothing but a new invocation
\* follows; no request after k was sent or saved, nothing was written for k
\* (its filename is absent from the store unless an earlier request of the
\* same scene wrote it), and what the requests before k wrote is in the
\* store.
C3_WholeBatchAbort ==
    /\ [](\A f \in Frames :
            RetryFailed(f) =>
                /\ f.pc = "raised"
                /\ f.error = (IF f.reply = "error" THEN "APIError"
                                                   ELSE "RateLimitError")
                /\ f.result = None
                /\ f.i \in DOMAIN Inputs(f)
                /\ \A k \in f.requested : k <= f.i
                /\ \A k \in DOMAIN Inputs(f) :
                       k >= f.i => f.wrote[k] = <<>>
                /\ \A k \in DOMAIN Inputs(f) :
                       k > f.i => f.okGen[k] = 0
                /\ (\A j \in 1..(f.i - 1) :
                       Inputs(f)[j].scene_id # Inputs(f)[f.i].scene_id)
                     => Key(f, f.i) \notin DOMAIN store
                /\ \A j \in 1..(f.i - 1) :
                       \A n \in Range(f.wrote[j]) : n \in DOMAIN store)
    /\ [][\A t \in DOMAIN inv :
            (RetryFailed(inv[t]) /\ inv'[t] # inv[t]) =>
                (runs' = runs + 1 /\ store' = store)]_vars

\* the second request fails on exhausted retries after the first was saved
C3_Witness ==
    \E f \in Frames :
        /\ RetryFailed(f)
        /\ f.error = "RateLimitError"
        /\ f.i = 2
        /\ f.wrote[1] # <<>>
        /\ Key(f, 1) \in DOMAIN store

\* C4: in a call with max_retries = m >= 1 whose every answer so far was
\* the rate limit, the m-th such answer ends the call raised with the
\* rate-limit error after m requests and m - 1 waits, with no wait after
\* it, and the call ends in no other way.
C4_RetryExhaustion ==
    \A f \in Frames :
        (f.max_retries >= 1 /\ f.rateLimited = f.requests) =>
            /\ f.requests = f.max_retries =>
                   /\ f.pc = "raised"
                   /\ f.error = "RateLimitError"
                   /\ Len(f.slept) = f.max_retries - 1
            /\ f.pc \in Terminal => f.requests = f.max_retries
            /\ f.pc = "sleeping" => f.requests < f.max_retries

\* max_retries = 3: three requests, two waits, raised
C4_Witness ==
    \E f \in Frames :
        /\ f.caller = "direct"
        /\ f.max_retries = 3
        /\ f.rateLimited = 3
        /\ f.requests = 3
        /\ Len(f.slept) = 2
        /\ f.pc = "raised"
        /\ f.error = "RateLimitError"

\* C5: when the API answers with an image after k rate-limit answers, then
\* k < max_retries, the call has returned the decoded bytes of that answer
\* after k + 1 requests and k waits of wait_time seconds, and it takes no
\* further step.
C5_RetryThenSuccess ==
    /\ [](\A f \in Frames :
            f.reply = "image" =>
                /\ f.pc = "returned"
                /\ f.rateLimited < f.max_retries
                /\ f.requests = f.rateLimited + 1
                /\ Len(f.slept) = f.rateLimited
                /\ \A k \in DOMAIN f.slept : f.slept[k] = wait_time
                /\ f.result = Some(b64decode(f.payload[1])))
    /\ [][\A t \in DOMAIN inv :
            inv[t].reply = "image" => inv'[t] = inv[t]]_vars

\* two rate limits, then an image
C5_Witness ==
    \E f \in Frames :
        /\ f.caller = "direct"
        /\ f.reply = "image"
        /\ f.rateLimited = 2
        /\ f.requests = 3
        /\ Len(f.slept) = 2
        /\ f.pc = "returned"
        /\ f.result = Some(<<75, 69, 99>>)

\* C6: when the API answers an attempt with an error other than the rate
\* limit, the call is raised with that error, no wait and no request was
\* made after the failed attempt, whatever number of attempts remains, and
\* the call takes no further step.
C6_OnlyRateLimitRetried ==
    /\ [](\A f \in Frames :
            f.reply = "error" =>
                /\ f.pc = "raised"
                /\ f.error = "APIError"
                /\ f.requests = f.rateLimited + 1
                /\ Len(f.slept) = f.rateLimited
                /\ f.result = None)
    /\ [][\A t \in DOMAIN inv :
            inv[t].reply = "error" => inv'[t] = inv[t]]_vars

\* the error comes on the second attempt with at least two attempts left
C6_Witness ==
    \E f \in Frames :
        /\ f.caller = "direct"
        /\ f.reply = "error"
        /\ f.pc = "raised"
        /\ f.rateLimited = 1
        /\ f.requests = 2
        /\ f.max_retries - f.requests >= 2

\* the record of the request at position k of the input
RecordOf(f, k) ==
    ImageRecord(Inputs(f)[k].scene_id, Inputs(f)[k].enhanced_prompt)

\* a returned invocation and its summary
Returned == {f \in Batches : f.pc = "returned"}

\* C7: a returned summary has total_images = len(generated_images) = N and
\* status complete, and every record occurs in generated_images as often as
\* the input holds a request with that record.
C7_CountInvariant ==
    \A f \in Returned :
        LET r    == f.result[1]
            recs == r.generated_images
            N    == Len(Inputs(f))
        IN  /\ r.total_images = Len(recs)
            /\ Len(recs) = N
            /\ r.status = "complete"
            /\ \A x \in Range(recs) \cup {RecordOf(f, k) : k \in 1..N} :
                   Cardinality({k \in DOMAIN recs : recs[k] = x})
                     = Cardinality({k \in 1..N : RecordOf(f, k) = x})

\* a summary over two requests, one skipped and one generated
C7_Witness ==
    \E f \in Returned :
        /\ Len(Inputs(f)) >= 2
        /\ f.requested # {}
        /\ \E k \in DOMAIN Inputs(f) : k \notin f.requested
        /\ f.result[1].total_images = Len(Inputs(f))

\* C8: in a returned summary the record at position k carries the scene_id
\* of the request at position k.
C8_OrderPreserved ==
    \A f \in Returned :
        LET recs == f.result[1].generated_images
        IN  \A k \in DOMAIN Inputs(f) :
                /\ k \in DOMAIN recs
                /\ recs[k].scene_id = Inputs(f)[k].scene_id

\* input [2, 1]: scene 2 skipped, scene 1 generated, records in input order
C8_Witness ==
    \E f \in Returned :
        /\ Len(Inputs(f)) = 2
        /\ Inputs(f)[1].scene_id = 2
        /\ Inputs(f)[2].scene_id = 1
        /\ f.requested = {2}
        /\ f.result[1].generated_images[1].scene_id = 2
        /\ f.result[1].generated_images[2].scene_id = 1

\* C9: in a returned invocation a request whose filename is not in the
\* listing got exactly one image and exactly one write, under
\* scene_{scene_id}_image.jpeg; a request whose filename is in the listing
\* got no request and no write, its artifact is untouched and its record is
\* in the summary.
C9_ExactSideEffects ==
    \A f \in Returned :
        \A k \in DOMAIN Inputs(f) :
            IF Key(f, k) \notin f.existing_artifacts
            THEN /\ k \in f.requested
                 /\ f.okGen[k] = 1
                 /\ f.wrote[k] = <<Key(f, k)>>
                 /\ Key(f, k) \in DOMAIN store
                 /\ store[Key(f, k)].mime_type = "image/jpeg"
            ELSE /\ k \notin f.requested
                 /\ f.okGen[k] = 0
                 /\ f.wrote[k] = <<>>
                 /\ store[Key(f, k)] = f.snapshot[Key(f, k)]
                 /\ f.result[1].generated_images[k] = RecordOf(f, k)

\* input [2, 1, ...] with scene 2 missing and scene 1 present
C9_Witness ==
    \E f \in Returned :
        /\ Len(Inputs(f)) >= 2
        /\ Inputs(f)[1].scene_id = 2
        /\ Inputs(f)[2].scene_id = 1
        /\ f.existing_artifacts = {Filename(1)}
        /\ f.wrote[1] = <<Filename(2)>>
        /\ f.wrote[2] = <<>>
        /\ store[Filename(1)] = OldArtifact

\* the slot or its field is absent from the shared state
StateMissing ==
    \/ "prompt_builder_output" \notin DOMAIN state
    \/ "optimized_prompts" \notin DOMAIN state["prompt_builder_output"]

\* Python's lookup errors
LookupErrors == {"LookupError", "KeyError", "IndexError"}

\* C10: when the slot or its field is absent, generate_images never returns
\* a summary, sends no generation request and writes no artifact, and the
\* error it raises for the missing state is a lookup error.
C10_MissingStateLookupError ==
    StateMissing =>
        \A f \in Frames :
            /\ f.pc # "returned"
            /\ f.result = None
            /\ f.requested = {}
            /\ f.requests = 0
            /\ NoWrites(f)
            /\ (f.pc = "raised" /\ f.error # "ArtifactError")
                   => f.error \in LookupErrors

\* the frame is inside a call of generate_image_with_retry
InRetryCall(f) == f.pc \in {"retry_loop", "in_flight", "sleeping"}

\* requests of the current call the API has not answered yet
Outstanding(f) == f.requests - f.rateLimited

\* the request at position j was skipped, or generated and then saved
CycleDone(f, j) ==
    /\ j \in DOMAIN f.generate_images
    /\ f.generate_images[j].scene_id = Inputs(f)[j].scene_id
    /\ IF Key(f, j) \in f.existing_artifacts
       THEN j \notin f.requested /\ f.wrote[j] = <<>>
       ELSE f.okGen[j] = 1 /\ f.wrote[j] = <<Key(f, j)>>

\* C11: inside an invocation at most one generation request is unanswered,
\* and it is unanswered exactly while the call waits for the API; a request
\* was sent for position k only when every earlier position had been skipped
\* or had completed its generate-then-save cycle, and for no later position.
C11_StrictlySequential ==
    \A f \in Batches :
        /\ InRetryCall(f) =>
               /\ Outstanding(f) \in {0, 1}
               /\ Outstanding(f) = 1 <=> f.pc = "in_flight"
        /\ \A k \in f.requested :
               /\ k <= f.i
               /\ \A j \in 1..(k - 1) : CycleDone(f, j)

\* the request of the second position is in flight after the first one was
\* generated and saved
C11_Witness ==
    \E f \in Batches :
        /\ f.pc = "in_flight"
        /\ f.i = 2
        /\ f.requested = {1, 2}
        /\ f.wrote[1] = <<Key(f, 1)>>
        /\ Outstanding(f) = 1

\* C12: a call of generate_image_with_retry that has completed has either
\* returned the decoded bytes of an image the API answered with, or raised
\* an error.
C12_BytesOrError ==
    \A f \in Frames :
        (f.caller = "direct" /\ f.pc \in Terminal) =>
            \/ /\ f.pc = "returned"
               /\ f.reply = "image"
               /\ f.result # None
               /\ f.result = Some(b64decode(f.payload[1]))
            \/ /\ f.pc = "raised"
               /\ f.error \in {"RateLimitError", "APIError"}

\* the frame is at a request whose filename its own listing does not hold
AtMissing(f) ==
    /\ f.pc = "loop"
    /\ f.optimized_prompts # None
    /\ f.i <= Len(Inputs(f))
    /\ Key(f, f.i) \notin f.existing_artifacts

\* C13: with two invocations interleaved over one state and one store, an
\* invocation decides by its own listing alone: at a request whose filename
\* the listing lacks its next step calls the retry client, whether or not
\* the other invocation has written that filename since, and its save puts
\* its own bytes under the filename over whatever is there.
C13_ConcurrentRace ==
    /\ [][\A t \in DOMAIN inv :
            (AtMissing(inv[t]) /\ inv'[t] # inv[t]) =>
                inv'[t].pc = "retry_loop"]_vars
    /\ [][\A t \in DOMAIN inv :
            (inv[t].pc = "save" /\ inv'[t].pc = "loop") =>
                /\ Filename(inv[t].scene_id) \in DOMAIN store'
                /\ store'[Filename(inv[t].scene_id)]
                       = Part(inv[t].image_bytes)]_vars

\* both invocations found scene 1 missing, both generated it with different
\* images and both wrote it: the artifact of the first is overwritten by
\* the second
C13_Witness ==
    /\ DOMAIN inv = ConcTasks
    /\ \A t \in ConcTasks :
          /\ inv[t].listed
          /\ Filename(1) \notin inv[t].existing_artifacts
          /\ Inputs(inv[t]) # <<>>
          /\ inv[t].okGen[1] = 1
          /\ inv[t].wrote[1] = <<Filename(1)>>
          /\ inv[t].pc = "returned"
    /\ inv[1].image_bytes # inv[2].image_bytes
    /\ store[Filename(1)] = Part(inv[2].image_bytes)

\* the listing call of this invocation failed
ListFailed(f) ==
    /\ f.caller = "generate_images"
    /\ f.pc = "raised"
    /\ f.error = "ArtifactError"
    /\ ~f.listed

\* the write of this invocation failed, at position f.i
SaveFailed(f) ==
    /\ f.caller = "generate_images"
    /\ f.pc = "raised"
    /\ f.error = "ArtifactError"
    /\ f.listed

\* no earlier request of the list has the scene_id of the request at k
FirstOfScene(f, k) ==
    \A j \in 1..(k - 1) : Inputs(f)[j].scene_id # Inputs(f)[k].scene_id

MaxOf(S) == CHOOSE x \in S : \A y \in S : y <= x

\* the invocation before this one ended on a failed write
AfterSaveFailed(f) ==
    /\ f.prev # None
    /\ f.prev[1].pc = "raised"
    /\ f.prev[1].error = "ArtifactError"
    /\ f.prev[1].listed

\* what holds after a failed listing or a failed write whatever the input
StoreFailureIsFatal(f) ==
    /\ ListFailed(f) =>
           /\ f.requested = {}
           /\ f.requests = 0
           /\ f.result = None
    /\ SaveFailed(f) =>
           /\ f.result = None
           /\ f.i \in DOMAIN Inputs(f)
           /\ Len(f.generate_images) = f.i - 1
           /\ \A j \in DOMAIN Inputs(f) : j >= f.i => f.wrote[j] = <<>>
           /\ \A j \in f.requested : j <= f.i

\* C14 as stated: a failed listing ends the invocation before any request;
\* a failed write for position k ends it without a summary, without a
\* record for k and with nothing later processed, the filename of k is not
\* in the store, and the restarted invocation generates position k again.
C14_AsStated ==
    \A f \in Frames :
        /\ StoreFailureIsFatal(f)
        /\ SaveFailed(f) => Key(f, f.i) \notin DOMAIN store
        /\ (AfterSaveFailed(f) /\ f.listed) =>
               LET k == MaxOf(f.prev[1].requested)
               IN  /\ Key(f, k) \notin f.existing_artifacts
                   /\ f.i > k => k \in f.requested

\* C14 amended: as C14, but the filename of k is absent from the store, and
\* the restarted invocation generates position k again, only when no
\* earlier request of the list names the same scene.
C14_StoreFailuresFatal ==
    \A f \in Frames :
        /\ StoreFailureIsFatal(f)
        /\ (SaveFailed(f) /\ FirstOfScene(f, f.i)) =>
               Key(f, f.i) \notin DOMAIN store
        /\ (AfterSaveFailed(f) /\ f.listed) =>
               LET k == MaxOf(f.prev[1].requested)
               IN  FirstOfScene(f, k) =>
                       /\ Key(f, k) \notin f.existing_artifacts
                       /\ f.i > k => k \in f.requested

\* the write of the second request failed; the restarted invocation skipped
\* the first scene, generated the second one again and returned
C14_Witness ==
    \E f \in Frames :
        /\ AfterSaveFailed(f)
        /\ MaxOf(f.prev[1].requested) = 2
        /\ FirstOfScene(f, 2)
        /\ f.pc = "returned"
        /\ f.requested = {2}
        /\ f.wrote[2] = <<Key(f, 2)>>

\* q is p cut after its first n characters
IsPrefixOfLength(q, p, n) ==
    /\ Len(q) = (IF Len(p) <= n THEN Len(p) ELSE n)
    /\ \A c \in 1..Len(q) : q[c] = p[c]

\* C15: the prompt of every record, appended on the skipped or on the
\* generated path, is the first 100 characters of the prompt of its request
\* (the whole prompt when it has at most 100), and the request sent to the
\* API carries the whole prompt of the request the loop is at.
C15_Truncation ==
    \A f \in Batches :
        /\ \A k \in DOMAIN f.generate_images :
               IsPrefixOfLength(f.generate_images[k].prompt,
                                Inputs(f)[k].enhanced_prompt, 100)
        /\ f.pc = "in_flight" =>
               /\ f.request # None
               /\ f.request[1].prompt = Inputs(f)[f.i].enhanced_prompt
        /\ f.pc = "returned" =>
               f.result[1].generated_images = f.generate_images

\* a prompt of 101 characters: its record at the first position has 100
\* characters, and the request in flight for the second position carries
\* all 101
C15_Witness ==
    \E f \in Batches :
        /\ f.pc = "in_flight"
        /\ f.i = 2
        /\ Len(f.request[1].prompt) = 101
        /\ Len(Inputs(f)[1].enhanced_prompt) = 101
        /\ Len(f.generate_images[1].prompt) = 100

C17_EmptyInput ==
    /\ [](\A f \in Batches :
            Inputs(f) = <<>> =>
                /\ f.pc \in {"loop", "returned"}
                /\ f.requested = {}
                /\ f.requests = 0
                /\ store = f.snapshot
                /\ f.pc = "returned" =>
                       /\ f.result # None
                       /\ f.result[1].total_images = 0
                       /\ f.result[1].generated_images = <<>>
                       /\ f.result[1].status = "complete")
    /\ [][\A t \in DOMAIN inv :
            (inv[t] \in Batches /\ Inputs(inv[t]) = <<>>
               /\ inv[t].pc = "loop" /\ inv'[t] # inv[t]) =>
                inv'[t].pc = "returned"]_vars

\* the empty list was returned as an empty summary
C17_Witness ==
    \E f \in Batches :
        /\ f.optimized_prompts = Some(<<>>)
        /\ f.pc = "returned"
        /\ f.result = Some([total_images |-> 0, generated_images |-> <<>>,
                            status |-> "complete"])
        /\ store = f.snapshot

\* C18: an invocation writes under no filename of the listing it read, also
\* for a list that repeats a scene_id and whatever the API answers, and
\* every artifact of that listing is in the store as it was.
C18_NoOverwriteOfListed ==
    /\ [](\A f \in Batches :
            /\ \A k \in DOMAIN f.wrote :
                   \A n \in Range(f.wrote[k]) : n \notin f.existing_artifacts
            /\ \A n \in f.existing_artifacts :
                   n \in DOMAIN store /\ store[n] = f.snapshot[n])
    /\ [][\A t \in DOMAIN inv :
            (inv[t] \in Batches /\ store' # store) =>
                \A n \in inv[t].existing_artifacts :
                    n \in DOMAIN store' /\ store'[n] = store[n]]_vars

\* scene 1 named twice and written twice next to a listed artifact of
\* scene 2 that is still the old one
C18_Witness ==
    \E f \in Batches :
        /\ Len(Inputs(f)) = 2
        /\ Inputs(f)[1].scene_id = 1
        /\ Inputs(f)[2].scene_id = 1
        /\ f.existing_artifacts = {Filename(2)}
        /\ f.wrote = << <<Filename(1)>>, <<Filename(1)>> >>
        /\ store[Filename(2)] = OldArtifact
        /\ store[Filename(1)] # OldArtifact

\* the filenames this invocation has written so far
WrittenBy(f) == UNION {Range(f.wrote[k]) : k \in DOMAIN f.wrote}

\* C19: at every point of an invocation each record appended so far names a
\* file that is in the store, either listed at the start or written by this
\* invocation; a record of a file that was not listed is there only after
\* its generation succeeded and its write completed; so every filename of a
\* returned summary is in the store.
C19_RecordsBacked ==
    \A f \in Batches :
        /\ Len(f.generate_images) <= Len(Inputs(f))
        /\ \A j \in DOMAIN f.generate_images :
               LET rec == f.generate_images[j] IN
               /\ rec.filename \in DOMAIN store
               /\ rec.filename \in f.existing_artifacts \cup WrittenBy(f)
               /\ rec.filename \notin f.existing_artifacts =>
                      /\ f.okGen[j] >= 1
                      /\ f.wrote[j] = <<rec.filename>>
        /\ (f.pc = "returned" /\ f.result # None) =>
               \A j \in DOMAIN f.result[1].generated_images :
                   f.result[1].generated_images[j].filename \in DOMAIN store

\* a returned summary with one record of a listed file and one record of a
\* file this invocation generated and wrote
C19_Witness ==
    \E f \in Returned :
        /\ Len(f.result[1].generated_images) = 2
        /\ f.result[1].generated_images[1].filename \in f.existing_artifacts
        /\ f.result[1].generated_images[2].filename \notin f.existing_artifacts
        /\ f.wrote[2] = <<f.result[1].generated_images[2].filename>>
        /\ f.okGen[2] = 1

\* an invocation that has been called and has not ended
Running(f) == f.caller = "generate_images" /\ f.pc \notin {"idle"} \cup Terminal

\* C20: generate_images calls the retry client with max_retries = 5 for
\* every request of the list, so whatever the API answers a request of the
\* list gets at most 5 generation requests and at most 4 waits, and every
\* invocation ends by returning a summary or by raising.
C20_Terminates ==
    /\ [](\A f \in Frames :
            (f.caller = "generate_images"
               /\ f.pc \in {"retry_loop", "in_flight", "sleeping", "raised"}
               /\ f.scene_id # 0) =>
                /\ f.max_retries = 5
                /\ f.attempt <= 5
                /\ f.requests <= 5
                /\ f.rateLimited <= 5
                /\ Len(f.slept) <= 4)
    /\ Running(inv[1]) ~> (inv[1].pc \in {"returned", "raised"})
    /\ [](inv[1].pc = "returned" => inv[1].result # None)

\* the second request of a list uses the whole budget, 5 requests and 4
\* waits, and the invocation ends by raising
C20_Witness ==
    \E f \in Batches :
        /\ f.i = 2
        /\ f.pc = "raised"
        /\ f.error = "RateLimitError"
        /\ f.max_retries = 5
        /\ f.requests = 5
        /\ Len(f.slept) = 4

====
